---- MODULE Spec2Model ----
(***************************************************************************)
(* Timeline segmentation and reconstruction engine.                        *)
(*                                                                         *)
(* Part 1: the interval merger, src/core/aggregator.py.  Python dicts and  *)
(* lists are objects with identity: `objs` is the heap of dicts, `lists`   *)
(* the heap of issue lists, and a segment list is a sequence of dict ids.  *)
(* dict.copy() is shallow: the copy shares the issues list of the source.  *)
(*                                                                         *)
(* Part 2: the boundary frame locator, replace_scene in                    *)
(* src/core/scene_replacer.py.                                             *)
(*                                                                         *)
(* Time is counted in ticks of half a second, so that 1.0s, 1.5s, 2.0s and *)
(* 8.0s of the source are 2, 3, 4 and 16 ticks.                            *)
(*                                                                         *)
(* Part 3: the duration reconciler, the timeline reconstructor and the     *)
(* concatenation, src/core/video_stitcher.py.  Here time is counted in     *)
(* steps of 0.05s (20 steps a second), so that the reconciler's 0.2s is 4  *)
(* steps; its ratio 0.8 is kept as the fraction 4/5.                       *)
(***************************************************************************)
EXTENDS Integers, Sequences, FiniteSets, TLC

\* ------------------------------------------------------------------------
\* Bounds of the explored inputs
\* ------------------------------------------------------------------------
MaxSegments == 3
MaxTime == 3
MaxGap == 1
MaxSceneTime == 8
MaxBuffer == 4
MaxVeo == 5
MaxClipSteps == 24
MaxTasks == 2
MaxStitchTime == 2
MaxClipLen == 1

\* ------------------------------------------------------------------------
\* Program constants (ticks of 0.5s)
\* ------------------------------------------------------------------------
DefaultGapThreshold == 4
DefaultBufferSeconds == 3
DefaultMaxVeoDuration == 16
MinCoverAfterStart == 2
VeoShort == 8
VeoMedium == 12
VeoLong == 16
VeoShortLimit == 10
VeoMediumLimit == 14

\* Program constants of the reconciler (steps of 0.05s; 0.8 = 4/5)
NearMatchSteps == 4
MinSpeedNum == 4
MinSpeedDen == 5

\* ------------------------------------------------------------------------
\* Small helpers
\* ------------------------------------------------------------------------
Max(a, b) == IF a >= b THEN a ELSE b
Min(a, b) == IF a <= b THEN a ELSE b
Last(s) == s[Len(s)]
Elems(s) == {s[i] : i \in 1..Len(s)}

\* dict.get(k, default) and dict[k] = v on a dict modelled as a function
DictGet(d, k, default) == IF k \in DOMAIN d THEN d[k] ELSE default
DictSet(d, k, v) == [x \in (DOMAIN d) \cup {k} |-> IF x = k THEN v ELSE d[x]]

\* ------------------------------------------------------------------------
\* aggregator.py
\* ------------------------------------------------------------------------

\* utils.parse_timestamp (utils.py is not among the sources): the "start" and
\* "end" of a segment are times in seconds, held here as their number of ticks
parse_timestamp(t) == t

SEVERITY_RANK(sev) ==
    CASE sev = "halal" -> 0
      [] sev = "none" -> 0
      [] sev = "questionable" -> 1
      [] sev = "mild" -> 2
      [] sev = "moderate" -> 3
      [] sev = "severe" -> 4
      [] OTHER -> 0

\* a slip in the comparison: the second operand always wins
max_severity_second(sev1, sev2) == sev2

_max_severity(sev1, sev2) ==
    IF SEVERITY_RANK(sev1) >= SEVERITY_RANK(sev2) THEN sev1 ELSE sev2

\* a slip in the merge: the second list is appended without the membership test
merge_issues_concat(issues1, issues2) == issues1 \o issues2

RECURSIVE AppendMissing(_, _, _)
AppendMissing(combined, issues2, i) ==
    IF i > Len(issues2) THEN combined
    ELSE AppendMissing(IF issues2[i] \in Elems(combined) THEN combined
                       ELSE Append(combined, issues2[i]),
                       issues2, i + 1)

_merge_issues(issues1, issues2) == AppendMissing(issues1, issues2, 1)

REPLACEMENT_PRIORITY(rep) ==
    CASE rep = "none" -> 0
      [] rep = "audio_only" -> 1
      [] rep = "blur_scene" -> 2
      [] rep = "skip" -> 3
      [] rep = "cut_segment" -> 4
      [] OTHER -> 0

_get_priority_replacement(rep1, rep2) ==
    IF REPLACEMENT_PRIORITY(rep1) >= REPLACEMENT_PRIORITY(rep2) THEN rep1 ELSE rep2

\* Python's `sub in s` on descriptions, which are sequences of words here
IsSubstring(sub, s) ==
    \E k \in 0..(Len(s) - Len(sub)) :
        \A j \in 1..Len(sub) : s[k + j] = sub[j]

\* sorted(segments, key=start): stable, so an element goes behind every
\* element already placed whose key is not larger
RECURSIVE SortedFrom(_, _, _, _)
SortedFrom(heapObjs, segs, i, acc) ==
    IF i > Len(segs) THEN acc
    ELSE LET k == parse_timestamp(heapObjs[segs[i]].start)
             n == Cardinality({j \in 1..Len(acc) :
                                 parse_timestamp(heapObjs[acc[j]].start) <= k})
         IN SortedFrom(heapObjs, segs, i + 1,
                       SubSeq(acc, 1, n) \o <<segs[i]>> \o SubSeq(acc, n + 1, Len(acc)))

sorted_segments(heapObjs, segs) == SortedFrom(heapObjs, segs, 1, <<>>)

\* a slip in copying: the list keeps the very dict it was given
dict_alias(heapObjs, id) == [objs |-> heapObjs, id |-> id]

\* dict.copy(): a new dict with the same keys and values (same issues list)
dict_copy(heapObjs, id) ==
    [objs |-> Append(heapObjs, heapObjs[id]), id |-> Len(heapObjs) + 1]

\* a slip in the key: the gap is measured from the end of the next segment
gap_from_end(prev, segment) ==
    parse_timestamp(segment.end) - parse_timestamp(prev.end)

\* a slip in the key: the gap is measured from the start of the accumulator
gap_from_start(prev, segment) ==
    parse_timestamp(segment.start) - parse_timestamp(prev.start)

\* curr_start - prev_end
gap_to_prev(prev, segment) ==
    parse_timestamp(segment.start) - parse_timestamp(prev.end)

\* a slip in the comparison: a gap of exactly the threshold is not merged
within_gap_strict(gap, gap_threshold) == gap < gap_threshold

within_gap(gap, gap_threshold) == gap <= gap_threshold

\* The body of the `if` branch.  Every write goes to merged[-1], which is the
\* dict `prev` names; each key is read before it is written, so every value
\* written is computed from the accumulator as it was when the branch was
\* entered.  `writes` lists the assignments in the order of the code.
RECURSIVE ApplyWrites(_, _, _)
ApplyWrites(d, writes, i) ==
    IF i > Len(writes) THEN d
    ELSE ApplyWrites(DictSet(d, writes[i][1], writes[i][2]), writes, i + 1)

merge_into_prev(heapObjs, heapLists, p, s) ==
    LET segment == heapObjs[s]
        prev == heapObjs[p]
        prev_desc == DictGet(prev, "description", DictGet(prev, "reason", <<>>))
        curr_desc == DictGet(segment, "description", DictGet(segment, "reason", <<>>))
        curr_reason == DictGet(segment, "reason", <<>>)
        prev_issues == IF "issues" \in DOMAIN prev THEN heapLists[prev.issues] ELSE <<>>
        curr_issues == IF "issues" \in DOMAIN segment THEN heapLists[segment.issues] ELSE <<>>
        prev_score == DictGet(prev, "haram_score", DictGet(prev, "confidence", 0))
        curr_score == DictGet(segment, "haram_score", DictGet(segment, "confidence", 0))
        newLists == Append(heapLists, _merge_issues(prev_issues, curr_issues))
        writes ==
            <<  <<"end", segment.end>>  >>
            \o (IF "end_seconds" \in DOMAIN segment
                THEN <<  <<"end_seconds", segment.end_seconds>>  >> ELSE <<>>)
            \o (IF curr_desc # <<>> /\ ~IsSubstring(curr_desc, prev_desc)
                THEN <<  <<"description", prev_desc \o <<"|">> \o curr_desc>>  >> ELSE <<>>)
            \o (IF "reason" \in DOMAIN prev
                   /\ curr_reason # <<>> /\ ~IsSubstring(curr_reason, prev.reason)
                THEN <<  <<"reason", prev.reason \o <<";">> \o curr_reason>>  >> ELSE <<>>)
            \o <<  <<"issues", Len(newLists)>>,
                   <<"haram_score", Max(prev_score, curr_score)>>,
                   <<"confidence", Max(prev_score, curr_score)>>,
                   <<"severity", _max_severity(DictGet(prev, "severity", "halal"),
                                               DictGet(segment, "severity", "halal"))>>,
                   <<"replacement",
                     _get_priority_replacement(DictGet(prev, "replacement", "none"),
                                               DictGet(segment, "replacement", "none"))>>  >>
    IN [objs |-> [heapObjs EXCEPT ![p] = ApplyWrites(prev, writes, 1)],
        lists |-> newLists]

\* The loop over sorted_segments[1:].  st carries the heap, the merged list
\* and two records of what the sweep did: groups[w] is the set of positions
\* of sorted_segments that went into window w, and steps logs, for each swept
\* segment, the accumulator end and segment start it was compared on and
\* whether it was merged.
RECURSIVE Sweep(_, _, _, _)
Sweep(st, sorted, i, gap_threshold) ==
    IF i > Len(sorted) THEN st
    ELSE
      LET s == sorted[i]
          p == Last(st.merged)
          prev == st.objs[p]
          segment == st.objs[s]
          entry == [acc_end |-> parse_timestamp(prev.end),
                    seg_start |-> parse_timestamp(segment.start)]
      IN IF within_gap(gap_to_prev(prev, segment), gap_threshold)
         THEN LET m == merge_into_prev(st.objs, st.lists, p, s)
              IN Sweep([objs |-> m.objs, lists |-> m.lists, merged |-> st.merged,
                        groups |-> [st.groups EXCEPT ![Len(st.groups)] = @ \cup {i}],
                        steps |-> Append(st.steps, entry @@ [folded |-> TRUE])],
                       sorted, i + 1, gap_threshold)
         ELSE LET c == dict_copy(st.objs, s)
              IN Sweep([objs |-> c.objs, lists |-> st.lists,
                        merged |-> Append(st.merged, c.id),
                        groups |-> Append(st.groups, {i}),
                        steps |-> Append(st.steps, entry @@ [folded |-> FALSE])],
                       sorted, i + 1, gap_threshold)

merge_adjacent_segments(heapObjs, heapLists, segs, gap_threshold) ==
    IF segs = <<>>
    THEN [objs |-> heapObjs, lists |-> heapLists, merged |-> <<>>,
          groups |-> <<>>, steps |-> <<>>, sorted |-> <<>>]
    ELSE LET sorted == sorted_segments(heapObjs, segs)
             c == dict_copy(heapObjs, sorted[1])
             r == Sweep([objs |-> c.objs, lists |-> heapLists, merged |-> <<c.id>>,
                         groups |-> <<{1}>>, steps |-> <<>>],
                        sorted, 2, gap_threshold)
         IN r @@ [sorted |-> sorted]

\* ------------------------------------------------------------------------
\* scene_replacer.py
\* ------------------------------------------------------------------------

\* a slip in the trim: the window is kept at the maximum length by moving
\* its start when the end is held by the floor
cut_window_shift_start(start_time, end_time, buffer_seconds, max_veo_duration) ==
    LET ideal_start == Max(0, start_time - buffer_seconds)
        ideal_end == end_time + buffer_seconds
        ideal_duration == ideal_end - ideal_start
        excess == ideal_duration - max_veo_duration
        new_end == Max(ideal_end - excess, start_time + MinCoverAfterStart)
    IN IF ideal_duration > max_veo_duration
       THEN [ideal_start |-> ideal_start, ideal_end |-> ideal_end,
             replace_start |-> new_end - max_veo_duration, replace_end |-> new_end,
             was_trimmed |-> TRUE, trimmed_seconds |-> excess]
       ELSE [ideal_start |-> ideal_start, ideal_end |-> ideal_end,
             replace_start |-> ideal_start, replace_end |-> ideal_end,
             was_trimmed |-> FALSE, trimmed_seconds |-> 0]

\* replace_scene, the computation of the cut window
cut_window(start_time, end_time, buffer_seconds, max_veo_duration) ==
    LET ideal_start == Max(0, start_time - buffer_seconds)
        ideal_end == end_time + buffer_seconds
        ideal_duration == ideal_end - ideal_start
        excess == ideal_duration - max_veo_duration
        new_end == Max(ideal_end - excess, start_time + MinCoverAfterStart)
    IN IF ideal_duration > max_veo_duration
       THEN [ideal_start |-> ideal_start, ideal_end |-> ideal_end,
             replace_start |-> ideal_start, replace_end |-> new_end,
             was_trimmed |-> TRUE, trimmed_seconds |-> excess]
       ELSE [ideal_start |-> ideal_start, ideal_end |-> ideal_end,
             replace_start |-> ideal_start, replace_end |-> ideal_end,
             was_trimmed |-> FALSE, trimmed_seconds |-> 0]

\* generate_replacement_clip: the clip length asked of the synthesis service
veo_duration(scene_duration) ==
    IF scene_duration <= VeoShortLimit THEN VeoShort
    ELSE IF scene_duration <= VeoMediumLimit THEN VeoMedium
    ELSE VeoLong

\* replace_scene.  frames is the outcome of extract_frames_at_times ("ok" or
\* "raise"), clip the outcome of generate_replacement_clip ("ok": a clip was
\* downloaded, "no_url": the service answered without a video, "raise").
\* The cut window is computed and printed before either is called.
replace_scene(a, frames, clip) ==
    LET w == cut_window(a.start_time, a.end_time, a.buffer_seconds, a.max_veo_duration)
        actual_duration == w.replace_end - w.replace_start
    IN IF frames = "raise" \/ clip = "raise"
       THEN [cut |-> w, raised |-> TRUE]
       ELSE [cut |-> w, raised |-> FALSE,
             record |-> [scene_index |-> a.scene_index,
                         original_start |-> a.start_time,
                         original_end |-> a.end_time,
                         replacement_start |-> w.replace_start,
                         replacement_end |-> w.replace_end,
                         replacement_path |-> a.scene_index,
                         has_video |-> (clip = "ok"),
                         duration |-> actual_duration,
                         veo_duration |-> veo_duration(actual_duration),
                         buffer_seconds |-> a.buffer_seconds,
                         was_trimmed |-> w.was_trimmed,
                         trimmed_seconds |-> w.trimmed_seconds]]

\* ------------------------------------------------------------------------
\* video_stitcher.py: the duration reconciler
\* ------------------------------------------------------------------------
Abs(x) == IF x < 0 THEN -x ELSE x

\* diff < 0.2
near_match(current_duration, target_duration) ==
    Abs(current_duration - target_duration) < NearMatchSteps

\* any clip that has a length is stretched
can_stretch_any(current_duration, target_duration) ==
    current_duration > 0

\* speed_factor = current_duration / target_duration; speed_factor >= 0.8
can_stretch(current_duration, target_duration) ==
    MinSpeedDen * current_duration >= MinSpeedNum * target_duration

\* the command the function builds: "none" where it returns before building one
adjust_command(current_duration, target_duration) ==
    IF near_match(current_duration, target_duration) THEN "none"
    ELSE IF current_duration > target_duration THEN "trim"
    ELSE IF current_duration < target_duration
         THEN IF can_stretch(current_duration, target_duration)
              THEN "stretch" ELSE "none"
         ELSE "undefined"

\* the length of what ffmpeg writes: -t target_duration cuts the clip at the
\* target, setpts=(1/speed_factor)*PTS multiplies every timestamp by
\* target_duration / current_duration
encoded_duration(cmd, current_duration, target_duration) ==
    IF cmd = "trim" THEN Min(current_duration, target_duration)
    ELSE (current_duration * target_duration) \div current_duration

\* adjust_replacement_duration(input_path, output_path, target_duration) on an
\* input of length info.duration; encode_ok is whether ffmpeg exits with 0
adjust_replacement_duration(info, target_duration, encode_ok) ==
    LET current_duration == info.duration
        cmd == adjust_command(current_duration, target_duration)
        copied == [cmd |-> cmd, ran |-> FALSE, copied |-> TRUE,
                   out_duration |-> current_duration,
                   out_audio |-> info.has_audio,
                   raised |-> FALSE, returned |-> TRUE]
    IN IF cmd = "none" THEN copied
       ELSE IF cmd = "undefined"
            \* subprocess.run(cmd, ...) with cmd never assigned
            THEN [copied EXCEPT !.copied = FALSE, !.out_duration = 0,
                                !.raised = TRUE, !.returned = FALSE]
       ELSE IF encode_ok
            THEN [copied EXCEPT !.ran = TRUE, !.copied = FALSE,
                                !.out_duration =
                                    encoded_duration(cmd, current_duration,
                                                     target_duration)]
            ELSE [copied EXCEPT !.ran = TRUE]

\* ------------------------------------------------------------------------
\* video_stitcher.py: the timeline reconstructor.  A task is a dict; its
\* replacement_path is the number of a clip file (0 or no key: no path), and
\* clip_files maps the clip files that exist to their length.  A segment file
\* is named by <<segment_idx, suffix>>.
\* ------------------------------------------------------------------------
RECURSIVE InsertByStart(_, _)
InsertByStart(sorted, rep) ==
    IF sorted = <<>> THEN <<rep>>
    ELSE IF DictGet(Last(sorted), "replacement_start", 0)
            <= DictGet(rep, "replacement_start", 0)
         THEN Append(sorted, rep)
         ELSE Append(InsertByStart(SubSeq(sorted, 1, Len(sorted) - 1), rep),
                     Last(sorted))

RECURSIVE SortedUpTo(_, _)
SortedUpTo(reps, n) ==
    IF n = 0 THEN <<>> ELSE InsertByStart(SortedUpTo(reps, n - 1), reps[n])

\* sorted(replacements, key=lambda x: x.get("replacement_start", 0))
sorted_replacements(reps) == SortedUpTo(reps, Len(reps))

rep_start_of(rep) ==
    DictGet(rep, "replacement_start", DictGet(rep, "original_start", 0))

rep_end_of(rep) ==
    DictGet(rep, "replacement_end", DictGet(rep, "original_end", 0))

\* not rep_path or not Path(rep_path).exists()
no_result(rep, files) ==
    \/ DictGet(rep, "replacement_path", 0) = 0
    \/ DictGet(rep, "replacement_path", 0) \notin DOMAIN files

\* the footage ffmpeg -ss start -t (end - start) reads from a source of
\* the given length
extracted_span(start, end, duration) ==
    Max(0, Min(end, duration) - start)

\* extract_segment(original_video, path, start, end) and, where it returned
\* True, segments.append(path); segment_idx += 1
extract_original(w, start, end, duration, ok) ==
    [w EXCEPT
       !.log = Append(@, [call |-> "extract_segment", task |-> w.i, ok |-> ok,
                          path |-> <<w.segment_idx, "original">>]),
       !.segments = IF ok
                    THEN Append(@, [kind |-> "original",
                                    path |-> <<w.segment_idx, "original">>,
                                    task |-> w.i,
                                    start |-> start, end |-> end,
                                    span |-> extracted_span(start, end, duration)])
                    ELSE @,
       !.segment_idx = IF ok THEN @ + 1 ELSE @]

\* lines 356-362: the original segment before the replacement
before_replacement(w, rep, duration, extract_ok) ==
    IF w.current_time < rep_start_of(rep)
    THEN extract_original(w, w.current_time, rep_start_of(rep), duration,
                          extract_ok)
    ELSE w

\* the length of the window, as if the clip were made to fill it
cut_duration_of(rep, files) ==
    rep_end_of(rep) - rep_start_of(rep)

\* rep_info = get_video_info(scaled_path); rep_duration = rep_info["duration"]:
\* the scaled clip lasts as long as the clip
rep_duration_of(rep, files) ==
    files[rep.replacement_path]

\* the end of the source audio asked for, were it the end of the window
audio_end_of_window(rep, files) ==
    rep_end_of(rep)

\* the end_time handed to _overlay_original_audio: rep_start + rep_duration
audio_end(rep, files) ==
    rep_start_of(rep) + rep_duration_of(rep, files)

\* the calls made on the clip, in order; _overlay_original_audio reads the
\* source audio from start_time for end_time - start_time
replacement_calls(w, rep, files, keep_audio, scale_ok, overlay_ok) ==
    <<[call |-> "scale_video_to_match", task |-> w.i, ok |-> scale_ok,
       path |-> <<w.segment_idx, "replacement_scaled">>]>>
    \o (IF scale_ok /\ keep_audio
        THEN <<[call |-> "_overlay_original_audio", task |-> w.i,
                ok |-> overlay_ok,
                path |-> <<w.segment_idx, "with_audio">>,
                start_time |-> rep_start_of(rep),
                end_time |-> audio_end(rep, files)]>>
        ELSE <<>>)

\* lines 364-400: scale the clip, put the original audio on it, append it.
\* rep_duration is the length of the scaled clip, taken as the length of the
\* clip; the clip is appended as it is
add_replacement(w, rep, files, keep_audio, scale_ok, overlay_ok) ==
    LET rep_duration == rep_duration_of(rep, files)
        with_audio == keep_audio /\ overlay_ok
        entry == [kind |-> "replacement",
                  path |-> <<w.segment_idx,
                             IF with_audio THEN "with_audio"
                             ELSE "replacement_scaled">>,
                  task |-> w.i,
                  start |-> rep_start_of(rep), end |-> rep_end_of(rep),
                  span |-> rep_duration]
    IN [w EXCEPT
          !.log = @ \o replacement_calls(w, rep, files, keep_audio, scale_ok,
                                         overlay_ok),
          !.segments = IF scale_ok THEN Append(@, entry) ELSE @,
          !.segment_idx = IF scale_ok THEN @ + 1 ELSE @]

\* lines 353-354: continue, the cursor stays where it is
cursor_kept(w, rep) ==
    [w EXCEPT !.i = @ + 1]

\* line 402: current_time = rep_end
cursor_to_end(w, rep) ==
    [w EXCEPT !.current_time = rep_end_of(rep), !.i = @ + 1]

\* one pass of the loop over sorted_replacements, lines 345-402
stitch_step(w, files, duration, keep_audio, extract_ok, scale_ok, overlay_ok) ==
    LET rep == w.sorted[w.i]
    IN IF no_result(rep, files)
       THEN cursor_kept(w, rep)
       ELSE cursor_to_end(
                add_replacement(before_replacement(w, rep, duration, extract_ok),
                                rep, files, keep_audio, scale_ok, overlay_ok),
                rep)

\* lines 404-410: the original footage after the last replacement;
\* segment_idx is not counted up any more
stitch_tail(w, duration, extract_ok) ==
    IF w.current_time < duration
    THEN [extract_original(w, w.current_time, duration, duration, extract_ok)
            EXCEPT !.segment_idx = w.segment_idx]
    ELSE w

Paths(segs) == [k \in 1..Len(segs) |-> segs[k].path]

\* lines 416-422: the result dict
stitch_result(reps, segs, success) ==
    [success |-> success,
     output_path |-> IF success THEN "output_path" ELSE "None",
     segments_count |-> Len(segs),
     replacements_applied |->
         Cardinality({k \in 1..Len(reps) :
                         DictGet(reps[k], "replacement_path", 0) # 0})]

\* ------------------------------------------------------------------------
\* video_stitcher.py: the concatenation.  list_file is what concat_list.txt
\* holds; an attempt records the list ffmpeg read from it.
\* ------------------------------------------------------------------------
\* the fallback is entered whatever the first attempt gave
fallback_always(ok) == TRUE

\* except subprocess.CalledProcessError: the fallback is entered
fallback_needed(ok) == ~ok

\* concatenate_segments(segment_paths, output_path, work_dir) up to its first
\* return or to the call of the fallback; ok: ffmpeg -c copy exits with 0
concatenate_segments(segment_paths, ok) ==
    IF segment_paths = <<>>
    THEN [attempts |-> <<>>, list_file |-> <<>>, list_exists |-> FALSE,
          copied |-> FALSE, fallback |-> FALSE, success |-> FALSE]
    ELSE IF Len(segment_paths) = 1
    THEN [attempts |-> <<>>, list_file |-> <<>>, list_exists |-> FALSE,
          copied |-> TRUE, fallback |-> FALSE, success |-> TRUE]
    ELSE [attempts |-> <<[strategy |-> "stream_copy", input |-> segment_paths,
                          ok |-> ok]>>,
          list_file |-> segment_paths,
          list_exists |-> fallback_needed(ok),
          copied |-> FALSE,
          fallback |-> fallback_needed(ok),
          success |-> ok]

\* _concatenate_with_reencode(segment_paths, output_path, concat_list)
concatenate_with_reencode(c, ok) ==
    [c EXCEPT !.attempts = Append(@, [strategy |-> "reencode",
                                      input |-> c.list_file, ok |-> ok]),
              !.list_exists = FALSE,
              !.fallback = FALSE,
              !.success = ok]

\* the segment files the calls of the walk have written so far
written(w) ==
    {w.log[a].path : a \in {b \in 1..Len(w.log) : w.log[b].ok}}

ConcatList == <<0, "concat_list">>

\* the working directory swept when the concatenation has failed
work_dir_swept(dir, c) ==
    IF c.list_exists THEN dir \cup {ConcatList}
    ELSE IF c.success THEN dir \ {ConcatList} ELSE {}

\* the working directory after concatenate_segments or its fallback:
\* concat_list.txt is written, and unlinked again on every return; no
\* segment file is removed (cleanup_work_dir is not called)
work_dir_after(dir, c) ==
    IF c.list_exists THEN dir \cup {ConcatList} ELSE dir \ {ConcatList}

\* ------------------------------------------------------------------------
\* State
\* ------------------------------------------------------------------------
VARIABLES
    objs,           \* heap of dicts: id -> dict
    lists,          \* heap of issue lists: id -> sequence of tags
    segments,       \* the list handed to merge_adjacent_segments (dict ids)
    gap_threshold,  \* its gap_threshold argument
    merged,         \* the list it returned (dict ids)
    call,           \* what the last call did: sorted input, groups, steps
    pre,            \* the heap as it was when the last call started
    first_out,      \* the windows returned by the first call, by value
    video_duration, \* length of the source video
    rs_args,        \* the arguments of the call to replace_scene
    rs_out,         \* what replace_scene computed and returned
    adj_args,       \* the arguments of the call to adjust_replacement_duration
    adj_out,        \* what adjust_replacement_duration did and returned
    replacements,   \* the task list handed to stitch_movie_with_replacements
    clip_files,     \* the replacement clips on disk: file number -> length
    keep_original_audio, \* its keep_original_audio argument
    walk,           \* its locals: sorted list, cursor, segment list, ...
    concat,         \* the concatenation: the attempts made and their outcome
    result,         \* the dict stitch_movie_with_replacements returns
    work_dir,       \* the files in its working directory
    batch_args,     \* the arguments of process_all_replacements
    batch,          \* its locals: loop index, the replacements list
    job,            \* the job of the API: the entry of `jobs` for its id
    threads,        \* the background threads started for the job
    pc              \* "created", "merged", "remerged"; "scene", "replaced";
                    \* "clip", "adjusted"; "tasks", "walking", "concat",
                    \* "fallback", "stitched"

vars == <<objs, lists, segments, gap_threshold, merged, call, pre, first_out,
          video_duration, rs_args, rs_out, adj_args, adj_out,
          replacements, clip_files, keep_original_audio, walk, concat, result,
          work_dir, batch_args, batch, job, threads, pc>>

mergeVars == <<objs, lists, segments, gap_threshold, merged, call, pre, first_out>>
replaceVars == <<video_duration, rs_args, rs_out>>
adjustVars == <<adj_args, adj_out>>
stitchVars == <<replacements, clip_files, keep_original_audio, walk, concat,
                result, work_dir>>
batchVars == <<batch_args, batch>>
apiVars == <<job, threads>>

\* ------------------------------------------------------------------------
\* Inputs: segments as process_movie.py builds them.  They are scored
\* segments: start < end, a severity and a replacement of the ranked scales,
\* and an issues list that names each tag once.
\* ------------------------------------------------------------------------
Profiles ==
    { [severity |-> "mild", issues |-> <<"kissing">>, replacement |-> "blur_scene",
       haram_score |-> 50, description |-> <<"kiss">>],
      [severity |-> "severe", issues |-> <<"nudity", "kissing">>, replacement |-> "audio_only",
       haram_score |-> 30, description |-> <<"beach">>] }

Intervals == {iv \in (0..MaxTime) \X (0..MaxTime) : iv[1] < iv[2]}

SegmentInputs == [iv : Intervals, profile : Profiles]

\* every list of at most n elements of S
SeqsUpTo(S, n) == UNION {[1..k -> S] : k \in 0..n}

\* segments `[(10,12,sev=mild),(12.5,15,sev=severe)]` with gapTolerance 2.0
Scenario ==
    << [iv |-> <<20, 24>>,
        profile |-> [severity |-> "mild", issues |-> <<"kissing">>,
                     replacement |-> "blur_scene", haram_score |-> 50,
                     description |-> <<"kiss">>]],
       [iv |-> <<25, 30>>,
        profile |-> [severity |-> "severe", issues |-> <<"nudity", "kissing">>,
                     replacement |-> "audio_only", haram_score |-> 30,
                     description |-> <<"beach">>]] >>

\* the dict process_movie.py builds for a flagged scene; its issues list is
\* the list object number `listId`
SegmentDict(inp, listId) ==
    [start |-> inp.iv[1], end |-> inp.iv[2],
     start_seconds |-> inp.iv[1], end_seconds |-> inp.iv[2],
     severity |-> inp.profile.severity,
     description |-> inp.profile.description,
     issues |-> listId,
     replacement |-> inp.profile.replacement,
     haram_score |-> inp.profile.haram_score]

NoCall == [sorted |-> <<>>, groups |-> <<>>, steps |-> <<>>]
NoArgs == [scene_index |-> 0]
NoOut == [raised |-> FALSE]
NoWalk == [sorted |-> <<>>, i |-> 0, current_time |-> 0, segment_idx |-> 0,
           segments |-> <<>>, log |-> <<>>]
NoConcat == [attempts |-> <<>>, list_file |-> <<>>, list_exists |-> FALSE,
             copied |-> FALSE, fallback |-> FALSE, success |-> FALSE]
NoResult == [success |-> FALSE]
NoBatchArgs == [segments |-> <<>>, max_scenes |-> 0]
NoBatch == [i |-> 0, replacements |-> <<>>, outcomes |-> <<>>, raised |-> FALSE]
NoJob == [status |-> "none"]

\* the parts of the state that belong to the other components, at rest
MergeIdle ==
    /\ objs = <<>>
    /\ lists = <<>>
    /\ segments = <<>>
    /\ gap_threshold = DefaultGapThreshold
    /\ merged = <<>>
    /\ call = NoCall
    /\ pre = [objs |-> <<>>, lists |-> <<>>, segments |-> <<>>]
    /\ first_out = <<>>

ReplaceIdle ==
    /\ rs_args = NoArgs
    /\ rs_out = NoOut

AdjustIdle ==
    /\ adj_args = NoArgs
    /\ adj_out = NoOut

BatchIdle ==
    /\ batch_args = NoBatchArgs
    /\ batch = NoBatch

ApiIdle ==
    /\ job = NoJob
    /\ threads = <<>>

StitchIdle ==
    /\ replacements = <<>>
    /\ clip_files = <<>>
    /\ keep_original_audio = TRUE
    /\ walk = NoWalk
    /\ concat = NoConcat
    /\ result = NoResult
    /\ work_dir = {}

InitMerge ==
    /\ \E inps \in SeqsUpTo(SegmentInputs, MaxSegments) \cup {Scenario} :
         /\ objs = [i \in 1..Len(inps) |-> SegmentDict(inps[i], i)]
         /\ lists = [i \in 1..Len(inps) |-> inps[i].profile.issues]
         /\ segments = [i \in 1..Len(inps) |-> i]
         /\ gap_threshold \in IF inps = Scenario THEN {DefaultGapThreshold} ELSE 0..MaxGap
    /\ merged = <<>>
    /\ call = NoCall
    /\ pre = [objs |-> objs, lists |-> lists, segments |-> segments]
    /\ first_out = <<>>
    /\ video_duration = 0
    /\ ReplaceIdle
    /\ AdjustIdle
    /\ StitchIdle
    /\ BatchIdle
    /\ ApiIdle
    /\ pc = "created"

\* a window (or segment) by value: the dict with its issues list read out
Score(d) == DictGet(d, "haram_score", DictGet(d, "confidence", 0))

WindowOf(heapObjs, heapLists, id) ==
    LET d == heapObjs[id]
    IN [start |-> parse_timestamp(d.start), end |-> parse_timestamp(d.end),
        severity |-> DictGet(d, "severity", "halal"),
        issues |-> IF "issues" \in DOMAIN d THEN heapLists[d.issues] ELSE <<>>,
        replacement |-> DictGet(d, "replacement", "none"),
        score |-> Score(d)]

Windows(heapObjs, heapLists, ids) ==
    [i \in 1..Len(ids) |-> WindowOf(heapObjs, heapLists, ids[i])]

\* ------------------------------------------------------------------------
\* Actions
\* ------------------------------------------------------------------------

\* merged_segments = merge_adjacent_segments(segments, gap_threshold)
CallMerge ==
    /\ pc = "created"
    /\ LET r == merge_adjacent_segments(objs, lists, segments, gap_threshold)
       IN /\ objs' = r.objs
          /\ lists' = r.lists
          /\ merged' = r.merged
          /\ call' = [sorted |-> r.sorted, groups |-> r.groups, steps |-> r.steps]
          /\ first_out' = Windows(r.objs, r.lists, r.merged)
    /\ pre' = [objs |-> objs, lists |-> lists, segments |-> segments]
    /\ pc' = "merged"
    /\ UNCHANGED <<segments, gap_threshold>>
    /\ UNCHANGED <<replaceVars, adjustVars, stitchVars, batchVars, apiVars>>

\* merge_adjacent_segments(merged_segments, gap_threshold): the windows of
\* the first call are the segments of the second
CallMergeAgain ==
    /\ pc = "merged"
    /\ LET r == merge_adjacent_segments(objs, lists, merged, gap_threshold)
       IN /\ objs' = r.objs
          /\ lists' = r.lists
          /\ merged' = r.merged
          /\ call' = [sorted |-> r.sorted, groups |-> r.groups, steps |-> r.steps]
    /\ segments' = merged
    /\ pre' = [objs |-> objs, lists |-> lists, segments |-> merged]
    /\ pc' = "remerged"
    /\ UNCHANGED <<gap_threshold, first_out>>
    /\ UNCHANGED <<replaceVars, adjustVars, stitchVars, batchVars, apiVars>>

NextMerge == CallMerge \/ CallMergeAgain

SpecMerge == InitMerge /\ [][NextMerge]_vars

\* ------------------------------------------------------------------------
\* The boundary frame locator: one call of replace_scene on a flagged window
\* of a source video
\* ------------------------------------------------------------------------
InitReplace ==
    /\ objs = <<>>
    /\ lists = <<>>
    /\ segments = <<>>
    /\ gap_threshold = DefaultGapThreshold
    /\ merged = <<>>
    /\ call = NoCall
    /\ pre = [objs |-> <<>>, lists |-> <<>>, segments |-> <<>>]
    /\ first_out = <<>>
    /\ video_duration \in 1..MaxSceneTime
    /\ \E s \in 0..MaxSceneTime, e \in 1..MaxSceneTime,
          b \in (0..MaxBuffer) \cup {DefaultBufferSeconds},
          m \in (1..MaxVeo) \cup {DefaultMaxVeoDuration} :
         /\ s < e
         /\ e <= video_duration
         /\ rs_args = [scene_index |-> 0, start_time |-> s, end_time |-> e,
                       buffer_seconds |-> b, max_veo_duration |-> m]
    /\ rs_out = NoOut
    /\ AdjustIdle
    /\ StitchIdle
    /\ BatchIdle
    /\ ApiIdle
    /\ pc = "scene"

\* result = replace_scene(video_path, start, end, ..., buffer_seconds, max_veo_duration)
CallReplaceScene ==
    /\ pc = "scene"
    /\ \E frames \in {"ok", "raise"}, clip \in {"ok", "no_url", "raise"} :
         rs_out' = replace_scene(rs_args, frames, clip)
    /\ pc' = "replaced"
    /\ UNCHANGED <<video_duration, rs_args>>
    /\ UNCHANGED <<mergeVars, adjustVars, stitchVars, batchVars, apiVars>>

NextReplace == CallReplaceScene

SpecReplace == InitReplace /\ [][NextReplace]_vars

\* ------------------------------------------------------------------------
\* The duration reconciler: one call of adjust_replacement_duration on a
\* clip of info.duration steps, for a window of target_duration steps
\* ------------------------------------------------------------------------
ClipInfos ==
    [duration : 0..MaxClipSteps, has_audio : BOOLEAN]

\* a 6s window and a 4.2s clip
ShortClipExample ==
    [info |-> [duration |-> 84, has_audio |-> TRUE], target_duration |-> 120]

InitAdjust ==
    /\ MergeIdle
    /\ video_duration = 0
    /\ ReplaceIdle
    /\ adj_args \in [info : ClipInfos, target_duration : 1..MaxClipSteps]
                     \cup {ShortClipExample}
    /\ adj_out = NoOut
    /\ StitchIdle
    /\ BatchIdle
    /\ ApiIdle
    /\ pc = "clip"

\* adjust_replacement_duration(input_path, output_path, target_duration)
CallAdjust ==
    /\ pc = "clip"
    /\ \E encode_ok \in BOOLEAN :
         adj_out' = adjust_replacement_duration(adj_args.info,
                                                adj_args.target_duration,
                                                encode_ok)
    /\ pc' = "adjusted"
    /\ UNCHANGED adj_args
    /\ UNCHANGED <<mergeVars, replaceVars, stitchVars, batchVars, apiVars>>

NextAdjust == CallAdjust

SpecAdjust == InitAdjust /\ [][NextAdjust]_vars

\* ------------------------------------------------------------------------
\* The timeline reconstructor: one call of stitch_movie_with_replacements.
\* A task is an error record of process_all_replacements (no path), a record
\* whose clip file is absent, or a record with a clip on disk.
\* ------------------------------------------------------------------------
TaskInputs ==
    {t \in [start : 0..MaxStitchTime, end : 1..MaxStitchTime,
            kind : {"error", "absent", "clip"}, clip : 1..MaxClipLen] :
        /\ t.start < t.end
        /\ (t.kind # "clip" => t.clip = 1)}

\* a 10s source, one 6s window at 2s..8s and a 4.2s clip for it
ShortClipScenario ==
    [duration |-> 200,
     tasks |-> <<[start |-> 40, end |-> 160, kind |-> "clip", clip |-> 84]>>]

TaskDict(inp, i) ==
    IF inp.kind = "error"
    THEN [scene_index |-> i, error |-> "error",
          original_start |-> inp.start, original_end |-> inp.end]
    ELSE [scene_index |-> i,
          replacement_start |-> inp.start, replacement_end |-> inp.end,
          replacement_path |-> i]

StitchInputs ==
    [duration : {MaxStitchTime - 1, MaxStitchTime},
     tasks : SeqsUpTo(TaskInputs, MaxTasks)] \cup {ShortClipScenario}

InitStitch ==
    /\ MergeIdle
    /\ ReplaceIdle
    /\ AdjustIdle
    /\ \E inp \in StitchInputs :
         /\ video_duration = inp.duration
         /\ replacements = [i \in 1..Len(inp.tasks) |-> TaskDict(inp.tasks[i], i)]
         /\ clip_files = [i \in {k \in 1..Len(inp.tasks) :
                                    inp.tasks[k].kind = "clip"}
                          |-> inp.tasks[i].clip]
    /\ keep_original_audio \in BOOLEAN
    /\ walk = NoWalk
    /\ concat = NoConcat
    /\ result = NoResult
    /\ work_dir = {}
    /\ BatchIdle
    /\ ApiIdle
    /\ pc = "tasks"

\* lines 327-343: the task list is sorted, the cursor starts at 0.0
StitchBegin ==
    /\ pc = "tasks"
    /\ walk' = [sorted |-> sorted_replacements(replacements), i |-> 1,
                current_time |-> 0, segment_idx |-> 0,
                segments |-> <<>>, log |-> <<>>]
    /\ pc' = "walking"
    /\ UNCHANGED <<replacements, clip_files, keep_original_audio, concat, result,
                   work_dir>>
    /\ UNCHANGED <<mergeVars, replaceVars, adjustVars, batchVars, apiVars>>

\* one pass of the loop; the outcomes of the ffmpeg calls are chosen freely
StitchStep ==
    /\ pc = "walking"
    /\ walk.i <= Len(walk.sorted)
    /\ \E extract_ok \in BOOLEAN, scale_ok \in BOOLEAN, overlay_ok \in BOOLEAN :
         walk' = stitch_step(walk, clip_files, video_duration,
                             keep_original_audio, extract_ok, scale_ok,
                             overlay_ok)
    /\ work_dir' = work_dir \cup written(walk')
    /\ UNCHANGED <<replacements, clip_files, keep_original_audio, concat, result,
                   pc>>
    /\ UNCHANGED <<mergeVars, replaceVars, adjustVars, batchVars, apiVars>>

\* the trailing original segment, then the call of concatenate_segments
StitchTail ==
    /\ pc = "walking"
    /\ walk.i > Len(walk.sorted)
    /\ \E extract_ok \in BOOLEAN :
         walk' = stitch_tail(walk, video_duration, extract_ok)
    /\ work_dir' = work_dir \cup written(walk')
    /\ pc' = "concat"
    /\ UNCHANGED <<replacements, clip_files, keep_original_audio, concat, result>>
    /\ UNCHANGED <<mergeVars, replaceVars, adjustVars, batchVars, apiVars>>

\* concatenate_segments: the first attempt; where it returns, the result dict
ConcatenateSegments ==
    /\ pc = "concat"
    /\ \E ok \in BOOLEAN :
         concat' = concatenate_segments(Paths(walk.segments), ok)
    /\ IF concat'.fallback
       THEN /\ pc' = "fallback"
            /\ UNCHANGED result
       ELSE /\ pc' = "stitched"
            /\ result' = stitch_result(replacements, walk.segments,
                                       concat'.success)
    /\ work_dir' = work_dir_after(work_dir, concat')
    /\ UNCHANGED <<replacements, clip_files, keep_original_audio, walk>>
    /\ UNCHANGED <<mergeVars, replaceVars, adjustVars, batchVars, apiVars>>

\* a fallback that goes back to the first attempt when it has failed
ConcatenateRetry ==
    /\ pc = "fallback"
    /\ \E ok \in BOOLEAN :
         /\ concat' = concatenate_with_reencode(concat, ok)
         /\ pc' = IF ok THEN "stitched" ELSE "concat"
    /\ result' = stitch_result(replacements, walk.segments, concat'.success)
    /\ work_dir' = work_dir_after(work_dir, concat')
    /\ UNCHANGED <<replacements, clip_files, keep_original_audio, walk>>
    /\ UNCHANGED <<mergeVars, replaceVars, adjustVars, batchVars, apiVars>>

\* _concatenate_with_reencode, then the result dict
ConcatenateWithReencode ==
    /\ pc = "fallback"
    /\ \E ok \in BOOLEAN :
         concat' = concatenate_with_reencode(concat, ok)
    /\ result' = stitch_result(replacements, walk.segments, concat'.success)
    /\ work_dir' = work_dir_after(work_dir, concat')
    /\ pc' = "stitched"
    /\ UNCHANGED <<replacements, clip_files, keep_original_audio, walk>>
    /\ UNCHANGED <<mergeVars, replaceVars, adjustVars, batchVars, apiVars>>

NextStitch ==
    \/ StitchBegin
    \/ StitchStep
    \/ StitchTail
    \/ ConcatenateSegments
    \/ ConcatenateWithReencode

SpecStitch == InitStitch /\ [][NextStitch]_vars

\* stitch_movie_with_replacements is one sequential call: while a step is
\* left it is taken, every call of ffmpeg returning or failing
SpecStitchLive == SpecStitch /\ WF_vars(NextStitch)

\* the reconciler and the reconstructor side by side
InitAssembly == InitAdjust \/ InitStitch

NextAssembly == NextAdjust \/ NextStitch

SpecAssembly == InitAssembly /\ [][NextAssembly]_vars

\* ------------------------------------------------------------------------
\* Properties of the interval merger (SpecMerge)
\* ------------------------------------------------------------------------
Called == pc \in {"merged", "remerged"}

SetMax(S) == CHOOSE x \in S : \A y \in S : y <= x

\* the windows the last call returned and the segments it was given, by value
OutWindows == Windows(objs, lists, merged)
InSegment(i) == WindowOf(pre.objs, pre.lists, call.sorted[i])
GroupOf(w) == {InSegment(i) : i \in call.groups[w]}
SomeMerge == \E k \in 1..Len(call.steps) : call.steps[k].folded

\* C1: every returned window ends at the maximum end of the segments that
\* were merged into it.
C1_WindowEndIsMaxEnd ==
    Called =>
        \A w \in 1..Len(merged) :
            OutWindows[w].end = SetMax({g.end : g \in GroupOf(w)})

\* C2: the returned windows are sorted by start, and of any two windows the
\* earlier one ends more than gap_threshold before the later one starts.
C2_SortedAndSeparated ==
    Called =>
        \A i \in 1..Len(merged) : \A j \in 1..Len(merged) :
            i < j =>
                /\ OutWindows[i].start <= OutWindows[j].start
                /\ OutWindows[i].end + gap_threshold < OutWindows[j].start

C2_Witness ==
    /\ pc = "merged"
    /\ Len(merged) = 2
    /\ SomeMerge

\* C3: merging the returned windows again with the same gap_threshold returns
\* the same windows: start, end, severity, issues, replacement and score.
C3_Idempotent ==
    pc = "remerged" => OutWindows = first_out

C3_Witness ==
    /\ pc = "remerged"
    /\ Len(first_out) = 2
    /\ \E w \in 1..Len(merged) : "confidence" \in DOMAIN objs[merged[w]]

\* C4: a swept segment is merged into the accumulator exactly when its start
\* minus the accumulator's end is at most gap_threshold, and the segments
\* (10,12,mild), (12.5,15,severe) with a threshold of 2.0s give the single
\* window (10,15,severe).
IsScenarioCall ==
    /\ pc = "merged"
    /\ gap_threshold = DefaultGapThreshold
    /\ Len(call.sorted) = 2
    /\ InSegment(1).start = 20 /\ InSegment(1).end = 24 /\ InSegment(1).severity = "mild"
    /\ InSegment(2).start = 25 /\ InSegment(2).end = 30 /\ InSegment(2).severity = "severe"

C4_MergeIffWithinGap ==
    /\ Called =>
         \A k \in 1..Len(call.steps) :
             call.steps[k].folded <=>
                 (call.steps[k].seg_start - call.steps[k].acc_end <= gap_threshold)
    /\ IsScenarioCall =>
         /\ Len(merged) = 1
         /\ OutWindows[1].start = 20
         /\ OutWindows[1].end = 30
         /\ OutWindows[1].severity = "severe"

C4_Witness ==
    /\ IsScenarioCall
    /\ call.steps = <<[acc_end |-> 24, seg_start |-> 25, folded |-> TRUE]>>

C6_MetadataIsMax ==
    Called =>
        \A w \in 1..Len(merged) :
            /\ SEVERITY_RANK(OutWindows[w].severity)
                 = SetMax({SEVERITY_RANK(g.severity) : g \in GroupOf(w)})
            /\ REPLACEMENT_PRIORITY(OutWindows[w].replacement)
                 = SetMax({REPLACEMENT_PRIORITY(g.replacement) : g \in GroupOf(w)})
            /\ OutWindows[w].score = SetMax({g.score : g \in GroupOf(w)})

C6_Witness ==
    /\ pc = "merged"
    /\ Len(merged) = 1
    /\ Len(call.sorted) = 2
    /\ InSegment(1).severity = "severe"
    /\ InSegment(2).severity = "mild"
    /\ InSegment(1).start = InSegment(2).start
    /\ OutWindows[1].severity = "severe"
    /\ OutWindows[1].replacement = "blur_scene"
    /\ OutWindows[1].score = 50

\* C7: a call leaves the list it was given, every dict in it and every
\* issues list as they were when the call started.
C7_InputUnchanged ==
    Called =>
        /\ segments = pre.segments
        /\ \A id \in 1..Len(pre.objs) : objs[id] = pre.objs[id]
        /\ \A l \in 1..Len(pre.lists) : lists[l] = pre.lists[l]

C7_Witness ==
    /\ pc = "merged"
    /\ Len(segments) = 3
    /\ Len(merged) = 1

\* ------------------------------------------------------------------------
\* Properties of the boundary frame locator (SpecReplace)
\* ------------------------------------------------------------------------
Replaced == pc = "replaced"

\* C8: the cut window replace_scene computes is never longer than
\* max_veo_duration.
C8_SpanWithinMax ==
    Replaced =>
        rs_out.cut.replace_end - rs_out.cut.replace_start <= rs_args.max_veo_duration

\* C9: the end of the cut window never lies beyond the end of the source:
\* the ideal cut ends at min(source duration, end + buffer).
C9_EndWithinSource ==
    Replaced =>
        /\ rs_out.cut.ideal_end
             = Min(video_duration, rs_args.end_time + rs_args.buffer_seconds)
        /\ rs_out.cut.replace_end <= video_duration

\* C10: replacement_start is max(0, start - buffer), which is not after the
\* start of the flagged window, and it is the start an untrimmed window
\* would have.
C10_StartPreserved ==
    Replaced =>
        LET want == Max(0, rs_args.start_time - rs_args.buffer_seconds)
            untrimmed == cut_window(rs_args.start_time, rs_args.end_time,
                                    rs_args.buffer_seconds,
                                    rs_args.end_time + rs_args.buffer_seconds + 1)
        IN /\ rs_out.cut.replace_start = want
           /\ rs_out.cut.replace_start <= rs_args.start_time
           /\ rs_out.cut.replace_start = untrimmed.replace_start
           /\ ~untrimmed.was_trimmed
           /\ ~rs_out.raised => rs_out.record.replacement_start = want

C10_Witness ==
    /\ Replaced
    /\ ~rs_out.raised
    /\ rs_out.record.was_trimmed
    /\ rs_out.record.replacement_start > 0
    /\ rs_out.record.replacement_end = rs_args.start_time + MinCoverAfterStart

\* ------------------------------------------------------------------------
\* Properties of the duration reconciler (SpecAdjust)
\* ------------------------------------------------------------------------
Adjusted == pc = "adjusted"

\* the re-encode was attempted and ffmpeg failed: the input was copied instead
EncodeFailed == adj_out.ran /\ adj_out.copied

\* C12: adjust_replacement_duration takes exactly one branch, decided by the
\* clip length d and the target t in this order: it copies the clip unchanged
\* when |d - t| < 0.2s; else it trims to t when d > t; else (d < t) it
\* stretches by t/d, so that the result lasts t, when d/t >= 0.8, and copies
\* the clip unchanged when d/t < 0.8.  The branches that re-encode always have
\* a command to run (no call ends on an unassigned cmd), for d >= 0 and t > 0.
C12_OneBranchInOrder ==
    Adjusted =>
        LET d == adj_args.info.duration
            t == adj_args.target_duration
            unchanged == /\ adj_out.cmd = "none"
                         /\ ~adj_out.ran
                         /\ adj_out.copied
                         /\ adj_out.out_duration = d
            encoded(c) == /\ adj_out.cmd = c
                          /\ adj_out.ran
                          /\ (~adj_out.copied => adj_out.out_duration = t)
        IN /\ ~adj_out.raised
           /\ adj_out.cmd \in {"none", "trim", "stretch"}
           /\ IF d - t < 4 /\ t - d < 4 THEN unchanged
              ELSE IF d > t THEN encoded("trim")
              ELSE IF 5 * d >= 4 * t THEN encoded("stretch")
              ELSE unchanged

\* a clip of 0.8 of the window or more, 0.2s or more short, was stretched to t
C12_Witness ==
    /\ Adjusted
    /\ adj_args.info.duration < adj_args.target_duration
    /\ adj_out.cmd = "stretch"
    /\ ~adj_out.copied
    /\ adj_out.out_duration = adj_args.target_duration

\* C13: for a clip length d and a target t with 0.8 <= d/t <= 1.25 and no
\* failed re-encode, the output of the reconciler lasts t to within 0.05s
\* (one step), also where 0.05s < |d - t| < 0.2s.
C13_OutputWithinTolerance ==
    (/\ Adjusted
     /\ 5 * adj_args.info.duration >= 4 * adj_args.target_duration
     /\ 4 * adj_args.info.duration <= 5 * adj_args.target_duration
     /\ ~EncodeFailed)
    => Abs(adj_out.out_duration - adj_args.target_duration) <= 1

\* ------------------------------------------------------------------------
\* Properties of the timeline reconstructor (SpecStitch, SpecAssembly)
\* ------------------------------------------------------------------------
Stitched == pc = "stitched"

\* the loop and the trailing extraction are over: the segment list is final
WalkDone == pc \in {"concat", "fallback", "stitched"}

RECURSIVE SumSpans(_, _)
SumSpans(segs, n) ==
    IF n = 0 THEN 0 ELSE SumSpans(segs, n - 1) + segs[n].span

TotalSpan == SumSpans(walk.segments, Len(walk.segments))

\* the emitted segments that cover the instant x of the source
Covering(x) ==
    {k \in 1..Len(walk.segments) :
        walk.segments[k].start <= x /\ x < walk.segments[k].end}

OriginalAt(x) ==
    \E k \in Covering(x) : walk.segments[k].kind = "original"

\* the positions of the log where the given call was made for the given task
CallsOf(name, task) ==
    {a \in 1..Len(walk.log) :
        walk.log[a].call = name /\ walk.log[a].task = task}

AllCallsOk == \A a \in 1..Len(walk.log) : walk.log[a].ok

\* C11: every replacement clip in the segment list went through normalize,
\* then the duration reconciler, then (optionally) the audio re-sync, in this
\* order, before it was appended: no replacement segment is in the list
\* without a call of the reconciler for it.
C11_ReconciledBeforeAppend ==
    \A k \in 1..Len(walk.segments) :
        walk.segments[k].kind = "replacement" =>
            \E a \in CallsOf("scale_video_to_match", walk.segments[k].task),
               b \in CallsOf("adjust_replacement_duration", walk.segments[k].task) :
                /\ a < b
                /\ \A c \in CallsOf("_overlay_original_audio",
                                    walk.segments[k].task) : b < c

\* the task a segment was emitted for, and the length of its clip and window
TaskOf(k) == walk.sorted[walk.segments[k].task]

ClipOf(k) == clip_files[TaskOf(k).replacement_path]

WindowLength(k) == rep_end_of(TaskOf(k)) - rep_start_of(TaskOf(k))

\* one task, its window inside the source, and every call succeeded
SingleCleanWindow ==
    /\ WalkDone
    /\ Len(walk.sorted) = 1
    /\ ~no_result(walk.sorted[1], clip_files)
    /\ rep_end_of(walk.sorted[1]) <= video_duration
    /\ AllCallsOk

\* C14: for a clip length d and a target t with d/t < 0.8 the reconciler
\* puts out the clip unmodified (length exactly d, no command built, no
\* re-encode attempted), and the assembled output holds d of footage where
\* the source held the window's t: with that window alone, every call
\* succeeding, the output is t - d shorter than the source (6s window, 4.2s
\* clip: 1.8s shorter).
C14_ShortClipAsIs ==
    /\ (Adjusted /\ 5 * adj_args.info.duration < 4 * adj_args.target_duration)
       => /\ adj_out.cmd = "none"
          /\ ~adj_out.ran
          /\ adj_out.copied
          /\ adj_out.out_duration = adj_args.info.duration
          /\ adj_out.returned
    /\ \A k \in 1..Len(walk.segments) :
          (/\ walk.segments[k].kind = "replacement"
           /\ 5 * ClipOf(k) < 4 * WindowLength(k))
          => /\ walk.segments[k].span = ClipOf(k)
             /\ CallsOf("adjust_replacement_duration", walk.segments[k].task) = {}
             /\ SingleCleanWindow
                => TotalSpan = video_duration - (WindowLength(k) - ClipOf(k))

\* the 6s window was filled by the 4.2s clip: 8.2s of a 10s source are left
C14_Witness ==
    /\ Stitched
    /\ result.success
    /\ video_duration = 200
    /\ Len(walk.segments) = 3
    /\ walk.segments[2].kind = "replacement"
    /\ WindowLength(2) = 120
    /\ walk.segments[2].span = 84
    /\ TotalSpan = 164

\* a replacement segment whose length is not the length of its window
Mismatched(k) ==
    /\ walk.segments[k].kind = "replacement"
    /\ walk.segments[k].span # WindowLength(k)

\* C15: when the re-encode of the reconciler fails, in the trim or in the
\* stretch branch, the reconciler still puts out a usable clip that is the
\* normalized input and reports success, the reconstruction goes on, and the
\* job's result flags the window as durationMismatched.
C15_FailedEncodeIsFlagged ==
    /\ (Adjusted /\ EncodeFailed)
       => /\ adj_out.copied
          /\ adj_out.out_duration = adj_args.info.duration
          /\ adj_out.returned
          /\ "durationMismatched" \in DOMAIN adj_out
    /\ (Stitched /\ \E k \in 1..Len(walk.segments) : Mismatched(k))
       => "durationMismatched" \in DOMAIN result

\* the part of a task's window that lies in the source
InWindow(rep, x) ==
    rep_start_of(rep) <= x /\ x < rep_end_of(rep) /\ x < video_duration

\* C16: the emitted segments partition the source timeline: every instant of
\* [0, sourceDuration) is covered by exactly one emitted original segment or
\* exactly one replaced window, with no gap (also when an extraction of
\* original footage fails) and no instant covered twice (also when two task
\* windows overlap or one lies inside another).
C16_SegmentsPartitionSource ==
    WalkDone =>
        \A x \in 0..(video_duration - 1) : Cardinality(Covering(x)) = 1

\* C17: a task with no usable result (no replacement_path, or no such file)
\* is skipped with the cursor left where it is, so that the whole span of
\* its window is emitted as original footage by the next extraction of an
\* original segment or by the trailing one, and the later tasks are still
\* processed.
C17_SkippedWindowStaysOriginal ==
    WalkDone =>
        /\ walk.i = Len(walk.sorted) + 1
        /\ \A j \in 1..Len(walk.sorted) :
              no_result(walk.sorted[j], clip_files) =>
                  \A x \in 0..(video_duration - 1) :
                      InWindow(walk.sorted[j], x) => OriginalAt(x)

\* C18: when scale_video_to_match fails for a clip the window fails open:
\* its span [replacement_start, replacement_end) is in the output as original
\* footage, not as a hole, the cursor not having moved past a window for
\* which no segment was emitted.
C18_ScaleFailureKeepsOriginal ==
    WalkDone =>
        \A a \in 1..Len(walk.log) :
            (walk.log[a].call = "scale_video_to_match" /\ ~walk.log[a].ok) =>
                \A x \in 0..(video_duration - 1) :
                    InWindow(walk.sorted[walk.log[a].task], x) => OriginalAt(x)

RECURSIVE SumWindows(_)
SumWindows(n) ==
    IF n = 0 THEN 0
    ELSE SumWindows(n - 1)
         + (rep_end_of(walk.sorted[n]) - rep_start_of(walk.sorted[n]))

RECURSIVE SumClips(_)
SumClips(n) ==
    IF n = 0 THEN 0
    ELSE SumClips(n - 1) + clip_files[walk.sorted[n].replacement_path]

\* every task has a clip, and every extraction, scaling and audio call worked
AllWindowsSuccessful ==
    /\ \A j \in 1..Len(walk.sorted) : ~no_result(walk.sorted[j], clip_files)
    /\ AllCallsOk

\* C19: when all windows are fully successful the spans of the emitted
\* segments add up to sourceDuration - sum(replacement_end -
\* replacement_start) + sum(length of the replacement clips), also when a
\* replacement_end lies beyond sourceDuration or two windows overlap.
C19_SpansAddUp ==
    (WalkDone /\ AllWindowsSuccessful) =>
        TotalSpan = video_duration - SumWindows(Len(walk.sorted))
                    + SumClips(Len(walk.sorted))

\* ------------------------------------------------------------------------
\* Properties of the concatenation (SpecStitch)
\* ------------------------------------------------------------------------
ConcatCalled == pc \in {"fallback", "stitched"}

\* the re-encode ran only after a failed stream-copy, on the same list in
\* the same order, and nothing was attempted after it
FallbackOnlyAfterFailure ==
    /\ Len(concat.attempts) <= 2
    /\ \A a \in 1..Len(concat.attempts) :
          /\ concat.attempts[a].input = Paths(walk.segments)
          /\ concat.attempts[a].strategy =
                (IF a = 1 THEN "stream_copy" ELSE "reencode")
          /\ (a > 1 => ~concat.attempts[a - 1].ok)

SomeAttemptOk == \E a \in 1..Len(concat.attempts) : concat.attempts[a].ok

\* C20 as stated: concatenate_segments always attempts the stream-copy
\* concatenation first, runs the re-encode only after the stream-copy has
\* failed, on the same list in the same order, and reports success whenever
\* either attempt succeeded.
C20_AlwaysStreamCopyFirst ==
    ConcatCalled =>
        /\ concat.attempts # <<>>
        /\ FallbackOnlyAfterFailure
        /\ (Stitched => (result.success <=> SomeAttemptOk))

\* C20, amended: for a list of two or more segments concatenate_segments
\* attempts the stream-copy concatenation first, runs the re-encode only
\* after that attempt has failed, then always, on the same list in the same
\* order, and reports success exactly when one of the attempts succeeded; a
\* single segment is copied to the output with no concatenation attempt and
\* success is reported, and an empty list is reported as a failure with no
\* attempt.
C20_StreamCopyFirst ==
    ConcatCalled =>
        /\ FallbackOnlyAfterFailure
        /\ IF Len(walk.segments) >= 2
           THEN /\ concat.attempts # <<>>
                /\ ~concat.copied
                /\ pc = "fallback" <=> (Len(concat.attempts) = 1
                                        /\ ~concat.attempts[1].ok)
                /\ Stitched =>
                      /\ result.success <=> SomeAttemptOk
                      /\ ~concat.attempts[1].ok => Len(concat.attempts) = 2
           ELSE /\ concat.attempts = <<>>
                /\ Stitched
                /\ concat.copied <=> Len(walk.segments) = 1
                /\ result.success <=> Len(walk.segments) = 1

\* three segments, the stream-copy failed, the re-encode succeeded: success
C20_Witness ==
    /\ Stitched
    /\ Len(walk.segments) = 3
    /\ Len(concat.attempts) = 2
    /\ ~concat.attempts[1].ok
    /\ concat.attempts[2].strategy = "reencode"
    /\ concat.attempts[2].ok
    /\ result.success

\* both concatenation attempts were made and both failed
BothConcatsFailed ==
    /\ Stitched
    /\ Len(concat.attempts) = 2
    /\ ~concat.attempts[1].ok
    /\ ~concat.attempts[2].ok

\* C21: when the stream-copy and the re-encode concatenation both fail,
\* stitch_movie_with_replacements reports success = false with no output
\* path, and every segment file the walk produced is still in the working
\* directory.
C21_FailureKeepsSegmentFiles ==
    BothConcatsFailed =>
        /\ ~result.success
        /\ result.output_path = "None"
        /\ written(walk) \subseteq work_dir
        /\ \A k \in 1..Len(walk.segments) : walk.segments[k].path \in work_dir

\* two or more segment files were written and both attempts failed
C21_Witness ==
    /\ BothConcatsFailed
    /\ Cardinality(written(walk)) >= 2
    /\ ~result.success
    /\ written(walk) \subseteq work_dir

\* the calls that write a file for a replacement clip
ClipCalls ==
    {a \in 1..Len(walk.log) :
        walk.log[a].call \in {"scale_video_to_match", "_overlay_original_audio"}}

\* C24: no two distinct windows use the same segment_NNN_replacement_scaled
\* or segment_NNN_with_audio path, whatever extractions and normalizations
\* succeed or fail, and the paths in the list handed to the concatenation
\* are pairwise distinct.
C24_PathsNeverShared ==
    /\ \A a, b \in ClipCalls :
          walk.log[a].task # walk.log[b].task
          => walk.log[a].path # walk.log[b].path
    /\ \A k, l \in 1..Len(walk.segments) :
          k # l => walk.segments[k].path # walk.segments[l].path

OverlayCalls ==
    {a \in 1..Len(walk.log) : walk.log[a].call = "_overlay_original_audio"}

\* C27: with keep_original_audio the audio laid under a replacement clip is
\* the source audio of [replacement_start, replacement_start + length of the
\* normalized clip), not of the whole cut window; without it the re-syncer
\* is never called and the clip is emitted as scaled, with its own audio.
C27_AudioForClipLength ==
    /\ \A a \in OverlayCalls :
          LET task == walk.sorted[walk.log[a].task]
          IN /\ keep_original_audio
             /\ walk.log[a].start_time = rep_start_of(task)
             /\ walk.log[a].end_time - walk.log[a].start_time
                   = clip_files[task.replacement_path]
    /\ ~keep_original_audio =>
          /\ OverlayCalls = {}
          /\ \A k \in 1..Len(walk.segments) :
                walk.segments[k].kind = "replacement"
                => walk.segments[k].path[2] = "replacement_scaled"

\* original audio was laid under a clip shorter than its window
C27_Witness ==
    /\ keep_original_audio
    /\ \E k \in 1..Len(walk.segments), a \in OverlayCalls :
          /\ walk.segments[k].kind = "replacement"
          /\ walk.segments[k].path[2] = "with_audio"
          /\ walk.log[a].task = walk.segments[k].task
          /\ walk.log[a].ok
          /\ walk.log[a].end_time < rep_end_of(TaskOf(k))

ReplacementSegments ==
    {k \in 1..Len(walk.segments) : walk.segments[k].kind = "replacement"}

\* C29: replacements_applied in the result equals the number of replacement
\* segments placed in the concatenated list, for every task list, also with
\* tasks whose clip file is missing or whose normalization failed.
C29_AppliedCountsPlacedClips ==
    Stitched =>
        result.replacements_applied = Cardinality(ReplacementSegments)

\* ------------------------------------------------------------------------
\* More properties of the boundary frame locator (SpecReplace)
\* ------------------------------------------------------------------------
\* C30: in the record replace_scene returns, was_trimmed is true exactly when
\* the ideal span (window plus buffers) exceeds max_veo_duration,
\* trimmed_seconds is 0 when not trimmed, and when trimmed it is what was cut
\* from the tail, ideal end minus replacement_end, also when the
\* 'start + 1.0s' floor limits the trim.
C30_TrimmedSecondsIsTailCut ==
    (pc = "replaced" /\ ~rs_out.raised) =>
        LET r == rs_out.record
            ideal_span == rs_out.cut.ideal_end - rs_out.cut.ideal_start
        IN /\ r.was_trimmed <=> ideal_span > rs_args.max_veo_duration
           /\ ~r.was_trimmed => r.trimmed_seconds = 0
           /\ r.was_trimmed =>
                 r.trimmed_seconds = rs_out.cut.ideal_end - r.replacement_end

\* ------------------------------------------------------------------------
\* The course of a reconstruction job (SpecStitchLive)
\* ------------------------------------------------------------------------
\* Created, processing segments, concatenating (fast path), concatenating
\* (fallback), terminal (succeeded or failed, as result.success says)
JobRank(state) ==
    CASE state = "tasks" -> 0
      [] state = "walking" -> 1
      [] state = "concat" -> 2
      [] state = "fallback" -> 3
      [] state = "stitched" -> 4

Attempted(strategy) ==
    {a \in 1..Len(concat.attempts) : concat.attempts[a].strategy = strategy}

\* C22: a reconstruction job only moves forward through created, processing
\* segments, concatenating (fast path), concatenating (fallback) and its
\* terminal state: every job reaches the terminal state, succeeded or failed,
\* no state is entered twice, each concatenation strategy is attempted at
\* most once, and no step is taken after the terminal state.
C22_ForwardToTerminal ==
    /\ [][\/ JobRank(pc') > JobRank(pc)
          \/ (pc = "walking" /\ pc' = "walking")]_vars
    /\ [][pc # "stitched"]_vars
    /\ [](/\ Cardinality(Attempted("stream_copy")) <= 1
          /\ Cardinality(Attempted("reencode")) <= 1)
    /\ [](Stitched => (result.success <=> result.output_path # "None"))
    /\ <>Stitched

\* a job that went through every state and failed
C22_Witness ==
    /\ Stitched
    /\ Len(walk.log) >= 2
    /\ Cardinality(Attempted("stream_copy")) = 1
    /\ Cardinality(Attempted("reencode")) = 1
    /\ ~result.success

\* ------------------------------------------------------------------------
\* scene_replacer.py: process_all_replacements, the loop over the flagged
\* windows.  Times are in ticks of half a second.
\* ------------------------------------------------------------------------
MaxBatch == 2
MaxBatchTime == 2

\* if max_scenes: segments = segments[:max_scenes]
batch_segments(segs, max_scenes) ==
    IF max_scenes # 0 THEN SubSeq(segs, 1, Min(max_scenes, Len(segs))) ELSE segs

\* start, end: start_seconds / end_seconds, or the parsed timestamps
window_times(segment) ==
    LET start == DictGet(segment, "start_seconds", 0)
        end == DictGet(segment, "end_seconds", 0)
    IN IF start = 0 /\ "start" \in DOMAIN segment
       THEN [start |-> parse_timestamp(segment.start),
             end |-> parse_timestamp(segment.end)]
       ELSE [start |-> start, end |-> end]

\* the dict appended by the except branch
error_record(i, t) ==
    [scene_index |-> i, error |-> "error",
     original_start |-> t.start, original_end |-> t.end]

\* the arguments of the call of replace_scene for window i: buffer_seconds
\* and max_veo_duration are left at their defaults
scene_args(i, segment) ==
    [scene_index |-> i,
     start_time |-> window_times(segment).start,
     end_time |-> window_times(segment).end,
     buffer_seconds |-> DefaultBufferSeconds,
     max_veo_duration |-> DefaultMaxVeoDuration]

\* the loop body without its except branch: what replace_scene raises
\* leaves the loop
process_window_unguarded(i, segment, frames, clip) ==
    LET r == replace_scene(scene_args(i, segment), frames, clip)
    IN IF r.raised
       THEN [raised |-> TRUE, record |-> error_record(i, window_times(segment))]
       ELSE [raised |-> FALSE, record |-> r.record]

\* the loop body: try: result = replace_scene(..., scene_index=i, ...)
\* except Exception as e: the error record.  Nothing is raised out of it
process_window(i, segment, frames, clip) ==
    LET r == replace_scene(scene_args(i, segment), frames, clip)
    IN [raised |-> FALSE,
        record |-> IF r.raised
                   THEN error_record(i, window_times(segment))
                   ELSE r.record]

BatchIntervals ==
    {iv \in (0..MaxBatchTime) \X (0..MaxBatchTime) : iv[1] < iv[2]}

\* a flagged window: as process_movie.py writes it, with "start" and "end"
\* only, or with start_seconds and end_seconds as well
BatchSegment(inp) ==
    IF inp.seconds
    THEN [start |-> inp.iv[1], end |-> inp.iv[2],
          start_seconds |-> inp.iv[1], end_seconds |-> inp.iv[2]]
    ELSE [start |-> inp.iv[1], end |-> inp.iv[2]]

BatchInputs == [iv : BatchIntervals, seconds : BOOLEAN]

\* a call of process_all_replacements; max_scenes 0 stands for None
InitBatch ==
    /\ MergeIdle
    /\ video_duration = MaxBatchTime
    /\ ReplaceIdle
    /\ AdjustIdle
    /\ StitchIdle
    /\ \E ivs \in SeqsUpTo(BatchInputs, MaxBatch), m \in 0..MaxBatch :
         batch_args = [segments |-> [k \in 1..Len(ivs) |-> BatchSegment(ivs[k])],
                       max_scenes |-> m]
    /\ batch = NoBatch
    /\ ApiIdle
    /\ pc = "batch"

\* one pass of `for i, segment in enumerate(segments)`; an exception that
\* is not caught ends the call
BatchStep ==
    /\ pc = "batch"
    /\ batch.i < Len(batch_segments(batch_args.segments, batch_args.max_scenes))
    /\ \E frames \in {"ok", "raise"}, clip \in {"ok", "no_url", "raise"} :
         LET segs == batch_segments(batch_args.segments, batch_args.max_scenes)
             r == process_window(batch.i, segs[batch.i + 1], frames, clip)
         IN IF r.raised
            THEN /\ batch' = [batch EXCEPT !.raised = TRUE]
                 /\ pc' = "batch_raised"
            ELSE /\ batch' = [batch EXCEPT
                                !.i = @ + 1,
                                !.replacements = Append(@, r.record),
                                !.outcomes = Append(@, [frames |-> frames,
                                                        clip |-> clip])]
                 /\ pc' = "batch"
    /\ UNCHANGED batch_args
    /\ UNCHANGED <<video_duration>>
    /\ UNCHANGED <<mergeVars, rs_args, rs_out, adjustVars, stitchVars, apiVars>>

\* return replacements
BatchReturn ==
    /\ pc = "batch"
    /\ batch.i = Len(batch_segments(batch_args.segments, batch_args.max_scenes))
    /\ pc' = "batched"
    /\ UNCHANGED <<mergeVars, replaceVars, adjustVars, stitchVars, batchVars,
                   apiVars>>

NextBatch == BatchStep \/ BatchReturn

SpecBatch == InitBatch /\ [][NextBatch]_vars

Processed == batch_segments(batch_args.segments, batch_args.max_scenes)

FailedOutcome(o) == o.frames = "raise" \/ o.clip = "raise"

\* the record replace_scene returns for window k when it is called on its
\* own, with the outcome window k had
RecordAlone(k) ==
    replace_scene(scene_args(k - 1, Processed[k]),
                  batch.outcomes[k].frames, batch.outcomes[k].clip).record

\* C26: a window whose replacement raises never ends the batch: the list
\* holds one record for each window processed so far (all of them once the
\* call has returned), in input order, with scene_index the window's index;
\* the record of a failed window carries the error and no replacement_path,
\* and every other record is the one replace_scene gives for that window
\* alone
C26_FailureStaysInItsWindow ==
    /\ pc # "batch_raised"
    /\ Len(batch.replacements) = batch.i
    /\ pc = "batched" => Len(batch.replacements) = Len(Processed)
    /\ \A k \in 1..Len(batch.replacements) :
         LET rec == batch.replacements[k]
         IN /\ rec.scene_index = k - 1
            /\ rec.original_start = window_times(Processed[k]).start
            /\ rec.original_end = window_times(Processed[k]).end
            /\ FailedOutcome(batch.outcomes[k])
                 => /\ "error" \in DOMAIN rec
                    /\ "replacement_path" \notin DOMAIN rec
            /\ ~FailedOutcome(batch.outcomes[k]) => rec = RecordAlone(k)

\* a returned batch of two windows whose first window failed and whose
\* second has its replacement
C26_Witness ==
    /\ pc = "batched"
    /\ Len(batch.replacements) = 2
    /\ FailedOutcome(batch.outcomes[1])
    /\ ~FailedOutcome(batch.outcomes[2])
    /\ "replacement_path" \in DOMAIN batch.replacements[2]

\* ------------------------------------------------------------------------
\* The pipeline from the flagged scenes to the cut windows:
\* merge_adjacent_segments with its default gap_threshold, then
\* process_all_replacements on the windows it returned
\* ------------------------------------------------------------------------
MaxPipeSegments == 2
MaxPipeTime == 7
MaxPipeLength == 2

PipeIntervals ==
    {iv \in (0..MaxPipeTime) \X (0..MaxPipeTime) :
        iv[1] < iv[2] /\ iv[2] - iv[1] <= MaxPipeLength}

PipeProfile ==
    [severity |-> "mild", issues |-> <<"kissing">>, replacement |-> "blur_scene",
     haram_score |-> 50, description |-> <<"kiss">>]

\* the flagged scenes of one video, gap_threshold left at its default
InitPipeline ==
    /\ \E ivs \in SeqsUpTo(PipeIntervals, MaxPipeSegments) :
         /\ objs = [i \in 1..Len(ivs) |->
                       SegmentDict([iv |-> ivs[i], profile |-> PipeProfile], i)]
         /\ lists = [i \in 1..Len(ivs) |-> PipeProfile.issues]
         /\ segments = [i \in 1..Len(ivs) |-> i]
    /\ gap_threshold = DefaultGapThreshold
    /\ merged = <<>>
    /\ call = NoCall
    /\ pre = [objs |-> objs, lists |-> lists, segments |-> segments]
    /\ first_out = <<>>
    /\ video_duration = MaxPipeTime
    /\ ReplaceIdle
    /\ AdjustIdle
    /\ StitchIdle
    /\ BatchIdle
    /\ ApiIdle
    /\ pc = "created"

\* the dict written for a merged window: its "start" and "end" are the ones
\* process_all_replacements reads
output_segment(d) ==
    [start |-> d.start, end |-> d.end]

\* replacements = process_all_replacements(video_path, segments, ...) on the
\* windows of the merge
CallProcessAll ==
    /\ pc = "merged"
    /\ batch_args' = [segments |-> [k \in 1..Len(merged) |->
                                       output_segment(objs[merged[k]])],
                      max_scenes |-> 0]
    /\ batch' = NoBatch
    /\ pc' = "batch"
    /\ UNCHANGED <<mergeVars, replaceVars, adjustVars, stitchVars, apiVars>>

NextPipeline == CallMerge \/ CallProcessAll \/ BatchStep \/ BatchReturn

SpecPipeline == InitPipeline /\ [][NextPipeline]_vars

HasCut(rec) == "replacement_end" \in DOMAIN rec

\* C28: with the default merge gap, buffer and maximum duration, the cut
\* windows of two consecutive windows of one merge output do not overlap:
\* replacement_end of the earlier one is at most replacement_start of the
\* later one
C28_CutWindowsDisjoint ==
    pc = "batched"
      => \A k \in 1..(Len(batch.replacements) - 1) :
            (HasCut(batch.replacements[k]) /\ HasCut(batch.replacements[k + 1]))
              => batch.replacements[k].replacement_end
                   <= batch.replacements[k + 1].replacement_start

\* ------------------------------------------------------------------------
\* api/app.py: one job of the API and the background threads started for
\* it.  Every handler starts a threading.Thread and returns; the threads
\* share the job through update_job.  A step of a thread is one phase of
\* its function, up to and including its update_job.
\* ------------------------------------------------------------------------
MaxThreads == 2
MaxJobSegments == 2

\* create_job: the job as it is after the upload
NewJob ==
    [status |-> "created", segments |-> 0, replacements |-> <<>>,
     output_path |-> "None", error |-> "None"]

\* successful_replacements = [r for r in replacements if r.get("replacement_path")]
successful_replacements(reps) ==
    SelectSeq(reps, LAMBDA r : r)

\* get_status: what a client is told about the job
get_status(j) ==
    [status |-> j.status,
     segments_count |-> j.segments,
     replacements_count |-> Len(successful_replacements(j.replacements)),
     has_output |-> j.output_path # "None",
     error |-> j.error]

InitJob ==
    /\ MergeIdle
    /\ video_duration = 0
    /\ ReplaceIdle
    /\ AdjustIdle
    /\ StitchIdle
    /\ BatchIdle
    /\ job = NewJob
    /\ threads = <<>>
    /\ pc = "serving"

At(t, where) == threads[t].at = where

\* POST /api/process/<job_id>: thread = Thread(target=run_full_pipeline); start
PostProcess ==
    /\ pc = "serving"
    /\ Len(threads) < MaxThreads
    /\ threads' = Append(threads, [target |-> "run_full_pipeline",
                                   at |-> "analysis"])
    /\ UNCHANGED <<job, pc>>
    /\ UNCHANGED <<mergeVars, replaceVars, adjustVars, stitchVars, batchVars>>

\* POST /api/stitch/<job_id>: 400 when the job has no replacements, else
\* thread = Thread(target=run_stitching); start
PostStitch ==
    /\ pc = "serving"
    /\ Len(threads) < MaxThreads
    /\ job.replacements # <<>>
    /\ threads' = Append(threads, [target |-> "run_stitching",
                                   at |-> "stitch"])
    /\ UNCHANGED <<job, pc>>
    /\ UNCHANGED <<mergeVars, replaceVars, adjustVars, stitchVars, batchVars>>

\* run_analysis: status "analyzed" with the segments found, or "error"
RunAnalysis ==
    /\ \E t \in 1..Len(threads) :
         /\ At(t, "analysis")
         /\ \E raised \in BOOLEAN, n \in 0..MaxJobSegments :
              job' = IF raised
                     THEN [job EXCEPT !.status = "error", !.error = "raised"]
                     ELSE [job EXCEPT !.status = "analyzed", !.segments = n]
         /\ threads' = [threads EXCEPT ![t].at = "analysed"]
    /\ UNCHANGED pc
    /\ UNCHANGED <<mergeVars, replaceVars, adjustVars, stitchVars, batchVars>>

\* run_full_pipeline after phase 1: return on "error"; "complete" when no
\* segment was flagged
AfterAnalysis ==
    /\ \E t \in 1..Len(threads) :
         /\ At(t, "analysed")
         /\ IF job.status = "error"
            THEN /\ threads' = [threads EXCEPT ![t].at = "done"]
                 /\ job' = job
            ELSE IF job.segments = 0
            THEN /\ threads' = [threads EXCEPT ![t].at = "done"]
                 /\ job' = [job EXCEPT !.status = "complete"]
            ELSE /\ threads' = [threads EXCEPT ![t].at = "replace"]
                 /\ job' = job
    /\ UNCHANGED pc
    /\ UNCHANGED <<mergeVars, replaceVars, adjustVars, stitchVars, batchVars>>

\* run_replacement: "no_segments", or "generated" with one record per
\* segment (TRUE: it has a replacement_path), or "error"
RunReplacement ==
    /\ \E t \in 1..Len(threads) :
         /\ At(t, "replace")
         /\ IF job.segments = 0
            THEN job' = [job EXCEPT !.status = "no_segments"]
            ELSE \E raised \in BOOLEAN, reps \in [1..job.segments -> BOOLEAN] :
                   job' = IF raised
                          THEN [job EXCEPT !.status = "error", !.error = "raised"]
                          ELSE [job EXCEPT !.status = "generated",
                                           !.replacements = reps]
         /\ threads' = [threads EXCEPT ![t].at = "replaced"]
    /\ UNCHANGED pc
    /\ UNCHANGED <<mergeVars, replaceVars, adjustVars, stitchVars, batchVars>>

\* run_full_pipeline after phase 2: return on "error"
AfterReplacement ==
    /\ \E t \in 1..Len(threads) :
         /\ At(t, "replaced")
         /\ threads' = [threads EXCEPT
                          ![t].at = IF job.status = "error" THEN "done"
                                    ELSE "stitch"]
    /\ UNCHANGED <<job, pc>>
    /\ UNCHANGED <<mergeVars, replaceVars, adjustVars, stitchVars, batchVars>>

\* run_stitching up to the call of stitch_movie_with_replacements:
\* "no_replacements" when no record has a replacement_path, else "stitching"
EnterStitching ==
    /\ \E t \in 1..Len(threads) :
         /\ At(t, "stitch")
         /\ IF successful_replacements(job.replacements) = <<>>
            THEN /\ job' = [job EXCEPT !.status = "no_replacements"]
                 /\ threads' = [threads EXCEPT ![t].at = "done"]
            ELSE /\ job' = [job EXCEPT !.status = "stitching"]
                 /\ threads' = [threads EXCEPT ![t].at = "stitching"]
    /\ UNCHANGED pc
    /\ UNCHANGED <<mergeVars, replaceVars, adjustVars, stitchVars, batchVars>>

\* stitch_movie_with_replacements(..., output_path = job_dir/output_clean.mp4,
\* work_dir = job_dir/stitch_work) returns or raises: "complete" with the
\* output path, or "error"
LeaveStitching ==
    /\ \E t \in 1..Len(threads) :
         /\ At(t, "stitching")
         /\ \E outcome \in {"success", "failure", "raised"} :
              job' = IF outcome = "success"
                     THEN [job EXCEPT !.status = "complete",
                                      !.output_path = "output_clean"]
                     ELSE [job EXCEPT !.status = "error",
                                      !.error = IF outcome = "failure"
                                                THEN "Stitching failed"
                                                ELSE "raised"]
         /\ threads' = [threads EXCEPT ![t].at = "done"]
    /\ UNCHANGED pc
    /\ UNCHANGED <<mergeVars, replaceVars, adjustVars, stitchVars, batchVars>>

NextJob ==
    \/ PostProcess
    \/ PostStitch
    \/ RunAnalysis
    \/ AfterAnalysis
    \/ RunReplacement
    \/ AfterReplacement
    \/ EnterStitching
    \/ LeaveStitching

SpecJob == InitJob /\ [][NextJob]_vars

\* the threads that are inside stitch_movie_with_replacements for the job
Assemblers == {t \in 1..Len(threads) : At(t, "stitching")}

\* C23: at most one thread at a time is inside
\* stitch_movie_with_replacements for the job's output_clean.mp4 and
\* stitch_work directory
C23_OneAssemblerPerJob ==
    Cardinality(Assemblers) <= 1

\* every thread started for the job has returned
JobEnded ==
    /\ threads # <<>>
    /\ \A t \in 1..Len(threads) : At(t, "done")

\* C25: a job whose processing has ended is either complete, and then it
\* has an output file, or in error; there is no third final state
C25_CompleteWithOutputOrError ==
    JobEnded
      => /\ get_status(job).status \in {"complete", "error"}
         /\ get_status(job).status = "complete" => get_status(job).has_output

====
